---------------------------- MODULE Spec2Model ----------------------------
(***************************************************************************)
(* Model of the lab-report toolkit: the significant-digit resolver         *)
(* (_PDG_precision, monkeypatch.py) and its installation in the library    *)
(* (MonkeyPatch.uncertainties_rounding), the uncertainty string formatter  *)
(* (the uarray branch of write_table, write_table.py and functions.py),    *)
(* write_table's settings lists and table text, and the directory context  *)
(* manager (CDContxt, classes.py, with cd of functions.py).                *)
(*                                                                         *)
(* The resolver works on Python floats, i.e. IEEE-754 binary64 values.     *)
(* They are modelled exactly: a float is sgn * man * 2^exp with man a      *)
(* 53-bit natural number kept as a little-endian sequence of limbs, and a  *)
(* product is the exact product rounded to nearest, ties to even.          *)
(***************************************************************************)
EXTENDS Integers, Sequences, FiniteSets, TLC

(***************************************************************************)
(* Bounds of the model.                                                    *)
(***************************************************************************)
\* decimal inputs of the resolver are m * 10^k, 1 <= m <= MaxMant,
\* -MaxNegExp <= k <= MaxPosExp
MaxMant == 25
MaxNegExp == 6
MaxPosExp == 1

(***************************************************************************)
(* Natural numbers of arbitrary size: little-endian sequences of limbs in  *)
(* base 2^LimbBits without a leading (most significant) zero; <<>> is 0.   *)
(***************************************************************************)
LimbBits == 14

Base == 2 ^ LimbBits

RECURSIVE FromNat(_)
FromNat(n) == IF n = 0 THEN <<>> ELSE <<n % Base>> \o FromNat(n \div Base)

RECURSIVE ToNatFrom(_, _)
ToNatFrom(a, i) == IF i > Len(a) THEN 0 ELSE a[i] + Base * ToNatFrom(a, i + 1)

\* only for numbers that fit a machine integer
ToNat(a) == ToNatFrom(a, 1)

Limb(a, i) == IF i >= 1 /\ i <= Len(a) THEN a[i] ELSE 0

RECURSIVE StripTop(_)
StripTop(a) ==
    IF a = <<>> THEN <<>>
    ELSE IF a[Len(a)] = 0 THEN StripTop(SubSeq(a, 1, Len(a) - 1))
    ELSE a

RECURSIVE AddFrom(_, _, _, _)
AddFrom(a, b, i, c) ==
    IF i > Len(a) /\ i > Len(b)
    THEN IF c > 0 THEN <<c>> ELSE <<>>
    ELSE LET s == Limb(a, i) + Limb(b, i) + c
         IN  <<s % Base>> \o AddFrom(a, b, i + 1, s \div Base)

BAdd(a, b) == AddFrom(a, b, 1, 0)

\* a times one limb d, from limb i of a upwards, with carry c
RECURSIVE MulLimbFrom(_, _, _, _)
MulLimbFrom(a, d, i, c) ==
    IF i > Len(a)
    THEN IF c > 0 THEN <<c>> ELSE <<>>
    ELSE LET s == a[i] * d + c
         IN  <<s % Base>> \o MulLimbFrom(a, d, i + 1, s \div Base)

RECURSIVE MulFrom(_, _, _)
MulFrom(a, b, i) ==
    IF i > Len(b) THEN <<>>
    ELSE LET rest == MulFrom(a, b, i + 1)
             up   == IF rest = <<>> THEN <<>> ELSE <<0>> \o rest
         IN  BAdd(StripTop(MulLimbFrom(a, b[i], 1, 0)), up)

BMul(a, b) == IF a = <<>> THEN <<>> ELSE MulFrom(a, b, 1)

\* -1, 0, 1 as a < b, a = b, a > b
RECURSIVE CmpFrom(_, _, _)
CmpFrom(a, b, i) ==
    IF i = 0 THEN 0
    ELSE IF a[i] # b[i] THEN (IF a[i] > b[i] THEN 1 ELSE -1)
    ELSE CmpFrom(a, b, i - 1)

BCmp(a, b) ==
    IF Len(a) # Len(b) THEN (IF Len(a) > Len(b) THEN 1 ELSE -1)
    ELSE CmpFrom(a, b, Len(a))

\* quotient and remainder of the limbs of a from limb i down to 1 by a
\* divisor d <= Base, with the remainder r carried in from the limbs above
RECURSIVE DivFrom(_, _, _, _)
DivFrom(a, i, r, d) ==
    IF i = 0 THEN [q |-> <<>>, r |-> r]
    ELSE LET cur  == r * Base + a[i]
             rest == DivFrom(a, i - 1, cur % d, d)
         IN  [q |-> rest.q \o <<cur \div d>>, r |-> rest.r]

\* a divided n times by ten: the quotient and whether any remainder was left
RECURSIVE DivPow10(_, _)
DivPow10(a, n) ==
    IF n = 0 THEN [q |-> a, inexact |-> FALSE]
    ELSE LET qr   == DivFrom(a, Len(a), 0, 10)
             rest == DivPow10(StripTop(qr.q), n - 1)
         IN  [q |-> rest.q, inexact |-> rest.inexact \/ qr.r # 0]

\* number of bits of a
BitLen(a) ==
    IF a = <<>> THEN 0
    ELSE LimbBits * (Len(a) - 1)
         + (CHOOSE k \in 1..LimbBits :
                2 ^ (k - 1) <= a[Len(a)] /\ a[Len(a)] < 2 ^ k)

\* bit i of a, bit 0 the least significant
BitAt(a, i) == (Limb(a, (i \div LimbBits) + 1) \div (2 ^ (i % LimbBits))) % 2

\* a \div 2^s
ShiftR(a, s) ==
    LET q == s \div LimbBits
        r == s % LimbBits
    IN  IF Len(a) <= q THEN <<>>
        ELSE StripTop([j \in 1..(Len(a) - q) |->
                 (a[j + q] \div (2 ^ r))
                 + (Limb(a, j + q + 1) % (2 ^ r)) * (2 ^ (LimbBits - r))])

\* a * 2^s
ShiftL(a, s) ==
    LET q == s \div LimbBits
        r == s % LimbBits
    IN  IF a = <<>> THEN <<>>
        ELSE StripTop([j \in 1..(Len(a) + q + 1) |->
                 IF j <= q THEN 0
                 ELSE (Limb(a, j - q) % (2 ^ (LimbBits - r))) * (2 ^ r)
                      + (Limb(a, j - q - 1) \div (2 ^ (LimbBits - r)))])

\* a % 2^s # 0
LowBitsSet(a, s) ==
    LET q == s \div LimbBits
        r == s % LimbBits
    IN  \/ \E j \in 1..Len(a) : j <= q /\ a[j] # 0
        \/ Limb(a, q + 1) % (2 ^ r) # 0

RECURSIVE Pow10Int(_)
Pow10Int(n) == IF n <= 0 THEN 1 ELSE 10 * Pow10Int(n - 1)

(***************************************************************************)
(* Python floats (binary64): sgn * man * 2^exp with man of MantBits bits   *)
(* (top bit set), or zero.                                                 *)
(***************************************************************************)
MantBits == 53

DZero == [sgn |-> 0, man |-> <<>>, exp |-> 0]

\* the float nearest to sgn * a * 2^e (round to nearest, ties to even)
RoundToDouble(sgn, a, e) ==
    LET n == BitLen(a) IN
    IF n = 0 \/ sgn = 0 THEN DZero
    ELSE IF n <= MantBits
    THEN [sgn |-> sgn, man |-> ShiftL(a, MantBits - n),
          exp |-> e - (MantBits - n)]
    ELSE LET drop == n - MantBits
             kept == ShiftR(a, drop)
             up   == /\ BitAt(a, drop - 1) = 1
                     /\ (LowBitsSet(a, drop - 1) \/ kept[1] % 2 = 1)
             k2   == IF up THEN BAdd(kept, <<1>>) ELSE kept
         IN  IF BitLen(k2) > MantBits
             THEN [sgn |-> sgn, man |-> ShiftR(k2, 1), exp |-> e + drop + 1]
             ELSE [sgn |-> sgn, man |-> k2, exp |-> e + drop]

Sign(n) == IF n > 0 THEN 1 ELSE IF n < 0 THEN -1 ELSE 0

Abs(n) == IF n < 0 THEN -n ELSE n

\* float(n) for a Python int n
FromInt(n) == RoundToDouble(Sign(n), FromNat(Abs(n)), 0)

\* number of bits the dividend is shifted up by before a division
DivShift == 98

\* the float a decimal literal  sgn * m * 10^k  denotes
FromDecimal(sgn, m, k) ==
    IF k >= 0
    THEN RoundToDouble(sgn, BMul(FromNat(m), FromNat(Pow10Int(k))), 0)
    ELSE LET d  == DivPow10(ShiftL(FromNat(m), DivShift), -k)
             tl == IF d.inexact THEN <<1>> ELSE <<>>
         IN  RoundToDouble(sgn, BAdd(ShiftL(d.q, 1), tl), -DivShift - 1)

\* x * y on floats
FMul(x, y) ==
    IF x.sgn = 0 \/ y.sgn = 0 THEN DZero
    ELSE RoundToDouble(x.sgn * y.sgn, BMul(x.man, y.man), x.exp + y.exp)

\* -1, 0, 1 as |x| < |y|, |x| = |y|, |x| > |y|, for non-zero floats
MagCmp(x, y) ==
    IF x.exp # y.exp THEN (IF x.exp > y.exp THEN 1 ELSE -1)
    ELSE BCmp(x.man, y.man)

\* -1, 0, 1 as x < y, x = y, x > y
DCmp(x, y) ==
    IF x.sgn # y.sgn THEN (IF x.sgn > y.sgn THEN 1 ELSE -1)
    ELSE IF x.sgn = 0 THEN 0
    ELSE x.sgn * MagCmp(x, y)

\* math.ceil(x), a Python int, for |x| < 2^31
Ceil(x) ==
    IF x.sgn = 0 THEN 0
    ELSE IF x.exp >= 0 THEN x.sgn * ToNat(ShiftL(x.man, x.exp))
    ELSE LET int  == ToNat(ShiftR(x.man, -x.exp))
             frac == LowBitsSet(x.man, -x.exp)
         IN  IF x.sgn = 1 THEN int + (IF frac THEN 1 ELSE 0) ELSE -int

\* 10**n: a Python int for n >= 0, a float for n < 0
Pow10(n) == IF n >= 0 THEN FromInt(Pow10Int(n)) ELSE FromDecimal(1, 1, n)

(***************************************************************************)
(* State.                                                                  *)
(***************************************************************************)
VARIABLES
    dec,      \* the decimal literal the resolver's argument was written as
    std_dev,  \* the resolver's argument, a float
    rpc,      \* the resolver call: "idle" (none), "call", "returned" or "raised"
    res,      \* what the resolver returned: [digits, value]
    cells,    \* the table handed to write_table: its cells' texts, row by row
    ncols,    \* the table's number of columns
    uarray,   \* write_table's uarray argument
    variant,  \* which write_table ran: "tex" (write_table.py), "plain" (functions.py)
    fpc,      \* the write_table call: "idle", "call" or "done"
    df_str,   \* write_table's df_str after the uarray branch
    PDG_precision,  \* the library's slot uc.PDG_precision: what it is bound to
    patch_calls,    \* how often MonkeyPatch.uncertainties_rounding was called
    stdout,         \* the lines printed so far
    cwd,      \* the process' working directory
    path,     \* each CDContxt instance's path attribute
    olddir,   \* each CDContxt instance's olddir attribute
    withs,    \* the with-blocks that are open, innermost last: the instance
              \* each entered and the working directory it was entered from
    raising,  \* an exception is propagating out of a with-body
    cdpc,     \* the last step of the with-blocks: "idle", "enter", "body", "exit"
    left,     \* the with-block the last __exit__ closed
    default_settings,  \* the list object that is the default of inner_settings,
                       \* one for each of the two write_table functions
    caller_settings,   \* the list object the caller passes as inner_settings
    sisetup,           \* the sisetup argument of the calls
    wargs,             \* the last complete write_table call: its arguments and
                       \* what the two lists it could change held before it
    complete_str,      \* the table text the last call wrote to its file
    produced,          \* for each choice of arguments, the texts written so far
    wcalls             \* the number of complete write_table calls so far

vars == <<dec, std_dev, rpc, res, cells, ncols, uarray, variant, fpc, df_str,
          PDG_precision, patch_calls, stdout,
          cwd, path, olddir, withs, raising, cdpc, left,
          default_settings, caller_settings, sisetup, wargs, complete_str,
          produced, wcalls>>

resolverVars == <<dec, std_dev, rpc, res>>

tableVars == <<cells, ncols, uarray, variant, fpc, df_str>>

patchVars == <<PDG_precision, patch_calls, stdout>>

cdVars == <<cwd, path, olddir, withs, raising, cdpc, left>>

settingsVars == <<default_settings, caller_settings, sisetup, wargs,
                  complete_str, produced, wcalls>>

\* everything but the resolver's and the formatter's state
otherVars == <<patchVars, cdVars, settingsVars>>

\* what the with-blocks leave alone
notCdVars == <<resolverVars, tableVars, patchVars, settingsVars>>

\* the slot as the library defines it: bound to its own PDG_precision
OriginalPolicy == [kind |-> "original", closure |-> 0]

\* the program has not patched the library and has printed nothing
PatchIdle ==
    /\ PDG_precision = OriginalPolicy
    /\ patch_calls = 0
    /\ stdout = <<>>

\* the directory of the script that was started, and the directory of
\* labtool/src/functions.py
ScriptDir == "script"
ModuleDir == "labtool/src"

Dirs == {ScriptDir, ModuleDir, "data"}

\* the CDContxt instances of the program
Contexts == {"c1", "c2"}

\* an instance has no olddir attribute before its first __enter__
NoDir == "unset"

NoWith == [ctx |-> "none", from |-> NoDir]

\* no with-block was opened: the process is where it started
CdIdle ==
    /\ cwd = ScriptDir
    /\ path = [c \in Contexts |-> ""]
    /\ olddir = [c \in Contexts |-> NoDir]
    /\ withs = <<>>
    /\ raising = FALSE
    /\ cdpc = "idle"
    /\ left = NoWith

\* the colspec arguments of the calls; "" is the default
Colspecs == { <<>>, <<"c", "c">> }

\* what tells two write_table calls of a run apart: the function called, its
\* colspec, and whether inner_settings is left out or is the caller's list
Args == [variant : {"tex", "plain"}, colspec : Colspecs,
         inner : {"default", "caller"}]

NoArgs == [variant |-> "none", colspec |-> <<>>, inner |-> "default",
           caller_before |-> <<>>, default_before |-> <<>>]

\* no write_table call with settings was made: both default lists are as
\* the def statements made them
SettingsIdle ==
    /\ default_settings = [v \in {"tex", "plain"} |-> <<>>]
    /\ caller_settings = <<>>
    /\ sisetup = <<>>
    /\ wargs = NoArgs
    /\ complete_str = <<>>
    /\ produced = [a \in Args |-> {}]
    /\ wcalls = 0

OtherIdle == PatchIdle /\ CdIdle /\ SettingsIdle

NoResult == [digits |-> 0, value |-> DZero]

(***************************************************************************)
(* The resolver.                                                           *)
(***************************************************************************)
\* math.log10 raises ValueError for 0 (and for a negative argument)
Log10Raises(x) == x.sgn <= 0

DAbs(x) == [x EXCEPT !.sgn = Abs(x.sgn)]

\* floor(log10(x)) for a float x > 0: the k with 10^k <= x < 10^(k+1),
\* searched downwards from k = hi
RECURSIVE FloorLog10(_, _)
FloorLog10(x, hi) ==
    IF MagCmp(x, Pow10(hi)) >= 0 THEN hi ELSE FloorLog10(x, hi - 1)

\* first_digit without its try/except and without abs()
first_digit_uncaught(value) ==
    IF Log10Raises(value) THEN [err |-> TRUE, val |-> 0]
    ELSE [err |-> FALSE, val |-> FloorLog10(value, MaxPosExp + 2)]

\* uncertainties.core.first_digit: int(math.floor(math.log10(abs(value)))),
\* and 0 when log10 raises ValueError
first_digit(value) ==
    IF Log10Raises(DAbs(value)) THEN [err |-> FALSE, val |-> 0]
    ELSE [err |-> FALSE, val |-> FloorLog10(DAbs(value), MaxPosExp + 2)]

\* n * 10**e for a Python int n: an int when e >= 0, a float product otherwise
IntTimesPow10(n, e) ==
    IF e >= 0 THEN FromInt(n * Pow10Int(e)) ELSE FMul(FromInt(n), Pow10(e))

\* the literal 1.9
D1_9 == FromDecimal(1, 19, -1)

_PDG_precision(sd) ==
    LET fd == first_digit(sd) IN
    IF fd.err THEN [err |-> TRUE, ret |-> NoResult]
    ELSE LET exponent         == fd.val
             normalized_float == FMul(sd, Pow10(-exponent))
         IN  IF DCmp(normalized_float, D1_9) <= 0
             THEN [err |-> FALSE,
                   ret |-> [digits |-> 2,
                            value  |-> IntTimesPow10(
                                Ceil(FMul(normalized_float, FromInt(10))),
                                exponent - 1)]]
             ELSE [err |-> FALSE,
                   ret |-> [digits |-> 1,
                            value  |-> IntTimesPow10(Ceil(normalized_float),
                                                     exponent)]]

Decimals ==
    [sgn : {-1, 0, 1}, m : 1..MaxMant, k : (-MaxNegExp)..MaxPosExp]

ResolverInit ==
    /\ dec \in {d \in Decimals : d.sgn = 0 => (d.m = 1 /\ d.k = 0)}
    /\ std_dev = FromDecimal(dec.sgn, dec.m, dec.k)
    /\ rpc = "call"
    /\ res = NoResult
    /\ cells = <<>> /\ ncols = 1 /\ uarray = FALSE
    /\ variant = "none" /\ fpc = "idle" /\ df_str = <<>>
    /\ OtherIdle

Resolve ==
    /\ rpc = "call"
    /\ LET r == _PDG_precision(std_dev)
       IN  /\ rpc' = IF r.err THEN "raised" ELSE "returned"
           /\ res' = r.ret
    /\ UNCHANGED <<dec, std_dev>>
    /\ UNCHANGED tableVars
    /\ UNCHANGED otherVars

ResolverNext == Resolve

SpecResolver == ResolverInit /\ [][ResolverNext]_vars

(***************************************************************************)
(* The monkey patch.  uncertainties_rounding binds the library's slot      *)
(* uc.PDG_precision to the resolver it has just defined; each call defines *)
(* a new function object of the same code, told apart here by the number   *)
(* of the call that made it.  The library calls whatever the slot holds    *)
(* when it formats an uncertain value.                                     *)
(***************************************************************************)
MaxPatchCalls == 3

\* the line uncertainties_rounding prints when msg is true
PatchMessage == "Monkey Patch: 'uncertainties_rounding'"

\* the standard deviations the library is asked to format
PatchDecimals ==
    {[sgn |-> 0, m |-> 1, k |-> 0], [sgn |-> 1, m |-> 12, k |-> 0],
     [sgn |-> 1, m |-> 19, k |-> 0], [sgn |-> 1, m |-> 2, k |-> -1],
     [sgn |-> 1, m |-> 5, k |-> -6], [sgn |-> -1, m |-> 3, k |-> 0]}

\* uncertainties_rounding with the assignment to the slot under 'if msg'
uncertainties_rounding_quiet(msg) ==
    /\ patch_calls < MaxPatchCalls
    /\ patch_calls' = patch_calls + 1
    /\ PDG_precision' =
           IF msg THEN [kind |-> "custom", closure |-> patch_calls + 1]
           ELSE PDG_precision
    /\ stdout' = IF msg THEN Append(stdout, PatchMessage) ELSE stdout
    /\ UNCHANGED resolverVars
    /\ UNCHANGED tableVars
    /\ UNCHANGED cdVars
    /\ UNCHANGED settingsVars

uncertainties_rounding(msg) ==
    /\ patch_calls < MaxPatchCalls
    /\ patch_calls' = patch_calls + 1
    /\ PDG_precision' = [kind |-> "custom", closure |-> patch_calls + 1]
    /\ stdout' = IF msg THEN Append(stdout, PatchMessage) ELSE stdout
    /\ UNCHANGED resolverVars
    /\ UNCHANGED tableVars
    /\ UNCHANGED cdVars
    /\ UNCHANGED settingsVars

\* the library formats a value of standard deviation d: it calls the
\* function the slot holds.  The library's own policy is not part of this
\* program; a call of it is recorded as "library" and its result left open.
CallPolicy(d) ==
    /\ dec' = d
    /\ std_dev' = FromDecimal(d.sgn, d.m, d.k)
    /\ IF PDG_precision.kind = "custom"
       THEN LET r == _PDG_precision(std_dev')
            IN  /\ rpc' = IF r.err THEN "raised" ELSE "returned"
                /\ res' = r.ret
       ELSE /\ rpc' = "library"
            /\ res' = NoResult
    /\ UNCHANGED patchVars
    /\ UNCHANGED tableVars
    /\ UNCHANGED cdVars
    /\ UNCHANGED settingsVars

PatchInit ==
    /\ PatchIdle
    /\ CdIdle
    /\ SettingsIdle
    /\ dec = [sgn |-> 0, m |-> 1, k |-> 0]
    /\ std_dev = DZero
    /\ rpc = "idle"
    /\ res = NoResult
    /\ cells = <<>> /\ ncols = 1 /\ uarray = FALSE
    /\ variant = "none" /\ fpc = "idle" /\ df_str = <<>>

PatchNext ==
    \/ \E msg \in BOOLEAN : uncertainties_rounding(msg)
    \/ \E d \in PatchDecimals : CallPolicy(d)

SpecPatch == PatchInit /\ [][PatchNext]_vars

(***************************************************************************)
(* Strings are sequences of one-character strings.                         *)
(***************************************************************************)
Digits == {"0", "1", "2", "3", "4", "5", "6", "7", "8", "9"}

IsDigit(c) == c \in Digits

\* the character of s at position i, "" outside s
At(s, i) == IF i >= 1 /\ i <= Len(s) THEN s[i] ELSE ""

\* the literal lit stands in s at position i
HasAt(s, i, lit) == \A j \in 1..Len(lit) : At(s, i + j - 1) = lit[j]

Least(S) == CHOOSE i \in S : \A j \in S : i <= j

QUOTE == "\""

PM == <<"+", "/", "-">>

\* the symbol each variant writes: \pm (write_table.py), +- (functions.py)
TexSym == <<"\\", "p", "m">>

PlainSym == <<"+", "-">>

\* sep="&" and line_terminator="\\\\\n" of df.to_csv
SEP == <<"&">>

EOL == <<"\\", "\\", "\n">>

(***************************************************************************)
(* The formatter: the uarray branch of write_table.                        *)
(***************************************************************************)
\* df.to_csv(sep="&", line_terminator="\\\\\n", ...) from cell i on: every
\* cell is followed by "&", the last cell of a row by the line terminator
RECURSIVE CsvFrom(_, _, _)
CsvFrom(cs, n, i) ==
    IF i > Len(cs) THEN <<>>
    ELSE cs[i] \o (IF i % n = 0 THEN EOL ELSE SEP) \o CsvFrom(cs, n, i + 1)

to_csv(cs, n) == CsvFrom(cs, n, 1)

NotQuote(c) == c # QUOTE

\* s.replace('"', '', 1): only the first quote goes
StripFirstQuote(s) ==
    LET qs == {i \in 1..Len(s) : s[i] = QUOTE}
    IN  IF qs = {} THEN s
        ELSE SubSeq(s, 1, Least(qs) - 1) \o SubSeq(s, Least(qs) + 1, Len(s))

\* df_str.replace('"', '')
StripQuotes(s) == SelectSeq(s, NotQuote)

\* (.)\+/-(.) matches at position i of s
MatchPmAnyChar(s, i) ==
    /\ At(s, i) \notin {"", "\n"}
    /\ HasAt(s, i + 1, PM)
    /\ At(s, i + 4) \notin {"", "\n"}

\* (\d)\+/-(\d) matches at position i of s
MatchPm(s, i) ==
    /\ IsDigit(At(s, i))
    /\ HasAt(s, i + 1, PM)
    /\ IsDigit(At(s, i + 4))

\* the replacement written without its spaces, r"\1SYM\2"
RECURSIVE SubPmTightFrom(_, _, _)
SubPmTightFrom(s, i, sym) ==
    LET hits == {p \in i..(Len(s) - 4) : MatchPm(s, p)}
    IN  IF hits = {} THEN SubSeq(s, i, Len(s))
        ELSE LET p == Least(hits)
             IN  SubSeq(s, i, p - 1) \o <<s[p]>> \o sym \o <<s[p + 4]>>
                 \o SubPmTightFrom(s, p + 5, sym)

SubPmTight(s, sym) == SubPmTightFrom(s, 1, sym)

\* the replacement written with its groups swapped, r"\2 SYM \1"
RECURSIVE SubPmSwappedFrom(_, _, _)
SubPmSwappedFrom(s, i, sym) ==
    LET hits == {p \in i..(Len(s) - 4) : MatchPm(s, p)}
    IN  IF hits = {} THEN SubSeq(s, i, Len(s))
        ELSE LET p == Least(hits)
             IN  SubSeq(s, i, p - 1) \o <<s[p + 4], " ">> \o sym \o <<" ", s[p]>>
                 \o SubPmSwappedFrom(s, p + 5, sym)

SubPmSwapped(s, sym) == SubPmSwappedFrom(s, 1, sym)

\* re.sub(r"(\d)\+/-(\d)", r"\1 SYM \2", s) from position i on: the leftmost
\* match at or after i is rewritten and the search goes on behind it
RECURSIVE SubPmFrom(_, _, _)
SubPmFrom(s, i, sym) ==
    LET hits == {p \in i..(Len(s) - 4) : MatchPm(s, p)}
    IN  IF hits = {} THEN SubSeq(s, i, Len(s))
        ELSE LET p == Least(hits)
             IN  SubSeq(s, i, p - 1) \o <<s[p], " ">> \o sym \o <<" ", s[p + 4]>>
                 \o SubPmFrom(s, p + 5, sym)

SubPm(s, sym) == SubPmFrom(s, 1, sym)

\* the number of digits of s from position i on
DigitRun(s, i) ==
    CHOOSE n \in 0..Len(s) :
        /\ \A j \in 0..(n - 1) : IsDigit(At(s, i + j))
        /\ ~IsDigit(At(s, i + n))

\* the length of what \d+\.?\d* matches at position i of s, 0 for no match
NumberLen(s, i) ==
    LET a == DigitRun(s, i)
    IN  IF a = 0 THEN 0
        ELSE IF At(s, i + a) = "." THEN a + 1 + DigitRun(s, i + a + 1)
        ELSE a

\* \((\d+\.?\d*) SYM (\d+\.?\d*)\)e at position i of s: the match's length
\* (0 for no match) and the places of its two groups
MatchParen(s, i, sym) ==
    LET mid == <<" ">> \o sym \o <<" ">>
        a   == NumberLen(s, i + 1)
        j   == i + 1 + a
        b   == NumberLen(s, j + Len(mid))
        k   == j + Len(mid) + b
    IN  IF /\ At(s, i) = "("
           /\ a > 0
           /\ HasAt(s, j, mid)
           /\ b > 0
           /\ HasAt(s, k, <<")", "e">>)
        THEN [len |-> k + 2 - i, g1 |-> SubSeq(s, i + 1, j - 1),
              g2 |-> SubSeq(s, j + Len(mid), k - 1)]
        ELSE [len |-> 0, g1 |-> <<>>, g2 |-> <<>>]

\* re.sub(r"\((\d+\.?\d*) SYM (\d+\.?\d*)\)e", r"\1 SYM \2 e", s) from
\* position i on
RECURSIVE SubParenFrom(_, _, _)
SubParenFrom(s, i, sym) ==
    LET hits == {p \in i..Len(s) : MatchParen(s, p, sym).len > 0}
    IN  IF hits = {} THEN SubSeq(s, i, Len(s))
        ELSE LET p == Least(hits)
                 m == MatchParen(s, p, sym)
             IN  SubSeq(s, i, p - 1) \o m.g1 \o <<" ">> \o sym \o <<" ">> \o m.g2
                 \o <<" ", "e">> \o SubParenFrom(s, p + m.len, sym)

SubParen(s, sym) == SubParenFrom(s, 1, sym)

\* the uarray branch: quotes, then +/-, then the parentheses
Format(s, sym) == SubParen(SubPm(StripQuotes(s), sym), sym)

\* write_table of write_table.py, up to df_str
write_table_tex(cs, n, ua) ==
    IF ua THEN Format(to_csv(cs, n), TexSym) ELSE to_csv(cs, n)

\* write_table of functions.py, up to df_str
write_table_plain(cs, n, ua) ==
    IF ua THEN Format(to_csv(cs, n), PlainSym) ELSE to_csv(cs, n)

(***************************************************************************)
(* The tables the formatter is run on.                                     *)
(***************************************************************************)
\* a table has at most MaxCells cells
MaxCells == 4

Noms == { <<"3", ".", "1", "4">>, <<"1">> }

Sds == { <<"0", ".", "0", "7">>, <<"2">> }

Signs == { <<>>, <<"-">>, <<"+">> }

Exps == { <<"+", "0", "2">>, <<"-", "5">>, <<"-", "1", "0", "5">> }

Quoted(q, s) == IF q THEN <<QUOTE>> \o s \o <<QUOTE>> ELSE s

\* "<sign><number>+/-<number>", as the uncertainties library writes a value
PlainCell(sg, n, sd) == sg \o n \o PM \o sd

\* "(<sign><number>+/-<number>)e<exponent>"
ExpCell(sg, n, sd, e) == <<"(">> \o sg \o n \o PM \o sd \o <<")", "e">> \o e

WellFormedCells ==
    {Quoted(q, PlainCell(sg, n, sd)) :
        q \in BOOLEAN, sg \in Signs, n \in Noms, sd \in Sds}
    \cup {Quoted(q, ExpCell(sg, n, sd, e)) :
        q \in BOOLEAN, sg \in Signs, n \in Noms, sd \in Sds, e \in Exps}

\* cells of other shapes
OddCells ==
    { <<"4", "2">>,
      <<>>,
      <<"-", "1", "e", "+", "0", "5">>,
      <<"a", "+", "/", "-", "b">>,
      <<"+", "/", "-", "2">>,
      <<"1", "+", "/", "-">>,
      <<"1", "+", "/", "-", "2", "+", "/", "-", "3">>,
      <<"1", "+", "/", "-", "2", "2", "+", "/", "-", "3">>,
      <<"(", "1", ".", "2", "3", " ", "\\", "p", "m", " ", "0", ".", "0", "4", ")", "e", "+", "0", "2">>,
      <<"(", "1", " ", "+", "-", " ", "2", ")", "e", "-", "5">>,
      <<"1", "/", "2">>,
      <<"1", "\"", "+", "/", "-", "2">>,
      <<"(", "1", "+", "/", "-", "2">>,
      <<"3", " ", "\\", "p", "m", " ", "4", ")", "e">>,
      <<"3", " ", "+", "-", " ", "4", ")", "e">>,
      <<"(", "1", "+", "/", "-", "2", ")">>,
      <<"(", "(", "1", "+", "/", "-", "2", ")", "e", "3">>,
      <<"\"", "4", "2", "\"">>,
      <<"\"", "(", "1", ".", "2", "3", " ", "\\", "p", "m", " ", "0", ".", "0", "4", ")", "e", "+", "0", "2", "\"">>,
      <<"n", "a", "n", "+", "/", "-", "0", ".", "1">>,
      <<"(", "1", "+", "/", "-", "2", ")", "e", "\"", "+", "0", "2", "\"">> }

\* the cells of the tables with more than one cell
NeighbourCells ==
    { <<"1", "+", "/", "-", "2">>,
      <<"(", "1", "+", "/", "-", "2", ")", "e", "-", "5">>,
      <<"+", "/", "-", "2">>,
      <<"1", "+", "/", "-">>,
      <<"\"", "3", ".", "1", "4", "+", "/", "-", "0", ".", "0", "7", "\"">> }

Tables ==
    {<<c>> : c \in WellFormedCells \cup OddCells}
    \cup UNION {[1..n -> NeighbourCells] : n \in 2..MaxCells}

TableInit ==
    /\ cells \in Tables
    /\ ncols \in {n \in 1..Len(cells) : Len(cells) % n = 0}
    /\ uarray \in BOOLEAN
    /\ variant = "none"
    /\ fpc = "call"
    /\ df_str = <<>>
    /\ dec = [sgn |-> 0, m |-> 1, k |-> 0]
    /\ std_dev = DZero
    /\ rpc = "idle"
    /\ res = NoResult
    /\ OtherIdle

WriteTableTex ==
    /\ fpc = "call"
    /\ variant' = "tex"
    /\ df_str' = write_table_tex(cells, ncols, uarray)
    /\ fpc' = "done"
    /\ UNCHANGED <<cells, ncols, uarray>>
    /\ UNCHANGED resolverVars
    /\ UNCHANGED otherVars

WriteTablePlain ==
    /\ fpc = "call"
    /\ variant' = "plain"
    /\ df_str' = write_table_plain(cells, ncols, uarray)
    /\ fpc' = "done"
    /\ UNCHANGED <<cells, ncols, uarray>>
    /\ UNCHANGED resolverVars
    /\ UNCHANGED otherVars

TableNext == WriteTableTex \/ WriteTablePlain

SpecTable == TableInit /\ [][TableNext]_vars

(***************************************************************************)
(* The directory context manager CDContxt and cd().                        *)
(***************************************************************************)
MaxDepth == 3

\* the paths given to CDContxt(path); "" is the default
Paths == {"", "data"}

\* cd(): os.chdir(os.path.dirname(os.path.abspath(__file__))), where __file__
\* is the file of cd itself; the directory it changes to
cd == ModuleDir

Top == withs[Len(withs)]

Front(q) == SubSeq(q, 1, Len(q) - 1)

\* the body of 'with c:' begins: CDContxt.__enter__ on instance c
__enter__(c) ==
    /\ ~raising
    /\ Len(withs) < MaxDepth
    /\ olddir' = [olddir EXCEPT ![c] = cwd]
    /\ cwd' = IF path[c] # "" THEN path[c] ELSE cd
    /\ withs' = Append(withs, [ctx |-> c, from |-> cwd])
    /\ cdpc' = "enter"
    /\ UNCHANGED <<path, raising, left>>
    /\ UNCHANGED notCdVars

\* the body of the innermost with-block changes the directory itself
BodyChdir(d) ==
    /\ ~raising
    /\ withs # <<>>
    /\ cwd' = d
    /\ cdpc' = "body"
    /\ UNCHANGED <<path, olddir, withs, raising, left>>
    /\ UNCHANGED notCdVars

\* the body of the innermost with-block raises an exception
BodyRaise ==
    /\ ~raising
    /\ withs # <<>>
    /\ raising' = TRUE
    /\ cdpc' = "body"
    /\ UNCHANGED <<cwd, path, olddir, withs, left>>
    /\ UNCHANGED notCdVars

\* the innermost with-block ends, normally (type "None") or by the exception
\* that is propagating: CDContxt.__exit__ on its instance.  It returns None,
\* so the exception goes on to the enclosing block.
__exit__(type) ==
    /\ withs # <<>>
    /\ raising <=> (type = "Exception")
    /\ cwd' = olddir[Top.ctx]
    /\ withs' = Front(withs)
    /\ left' = Top
    /\ cdpc' = "exit"
    /\ UNCHANGED <<path, olddir, raising>>
    /\ UNCHANGED notCdVars

\* a try/except around a with-block catches the exception that left it
Catch ==
    /\ raising
    /\ cdpc = "exit"
    /\ raising' = FALSE
    /\ UNCHANGED <<cwd, path, olddir, withs, cdpc, left>>
    /\ UNCHANGED notCdVars

CdInit ==
    /\ cwd \in Dirs
    /\ path \in [Contexts -> Paths]
    /\ olddir = [c \in Contexts |-> NoDir]
    /\ withs = <<>>
    /\ raising = FALSE
    /\ cdpc = "idle"
    /\ left = NoWith
    /\ PatchIdle
    /\ SettingsIdle
    /\ dec = [sgn |-> 0, m |-> 1, k |-> 0]
    /\ std_dev = DZero
    /\ rpc = "idle"
    /\ res = NoResult
    /\ cells = <<>> /\ ncols = 1 /\ uarray = FALSE
    /\ variant = "none" /\ fpc = "idle" /\ df_str = <<>>

CdNext ==
    \/ \E c \in Contexts : __enter__(c)
    \/ \E d \in Dirs : BodyChdir(d)
    \/ BodyRaise
    \/ \E type \in {"None", "Exception"} : __exit__(type)
    \/ Catch

SpecCd == CdInit /\ [][CdNext]_vars

(***************************************************************************)
(* write_table as a whole: the settings lists, the table text and the      *)
(* file.  inner_settings defaults to a list that the def statement makes   *)
(* once; a call that leaves the argument out works on that one list.       *)
(***************************************************************************)
MaxWriteCalls == 3

\* ", ".join(list)
RECURSIVE Join(_)
Join(list) ==
    IF list = <<>> THEN <<>>
    ELSE IF Len(list) = 1 THEN list[1]
    ELSE list[1] \o <<",", " ">> \o Join(Tail(list))

\* f"colspec={{{colspec}}}"
colspec_entry(colspec) ==
    <<"c", "o", "l", "s", "p", "e", "c", "=", "{">> \o colspec \o <<"}">>

\* the list inner_settings is bound to, after 'if colspec: inner_settings.append(...)'
inner_settings_appended(inner_settings, colspec) ==
    IF colspec # <<>> THEN Append(inner_settings, colspec_entry(colspec))
    ELSE inner_settings

\* the default of the environ argument
environ == <<"t", "b", "l", "r">>

\* what write_table of write_table.py writes to its file
file_text(sisetup_str, inner_settings_str, df) ==
    (IF sisetup_str # <<>>
     THEN <<"\\", "s", "i", "s", "e", "t", "u", "p", "{">> \o sisetup_str
          \o <<"}", "\n", "\n">>
     ELSE <<>>)
    \o <<"\\", "b", "e", "g", "i", "n", "{">> \o environ \o <<"}", "{">>
    \o inner_settings_str \o <<"}", "\n">>
    \o df
    \o <<"\\", "e", "n", "d", "{">> \o environ \o <<"}">>

\* complete_str of write_table of functions.py, written to the file and returned
complete_str_of(sisetup_str, inner_settings_str, df) ==
    (IF sisetup_str # <<>>
     THEN <<"\\", "s", "i", "s", "e", "t", "u", "p", "{">> \o sisetup_str
          \o <<"}", "\n", "\n">>
     ELSE <<>>)
    \o (<<"\\", "b", "e", "g", "i", "n", "{">> \o environ \o <<"}", "{">>
        \o inner_settings_str \o <<"}", "\n">>
        \o df
        \o <<"\\", "e", "n", "d", "{">> \o environ \o <<"}">>)

\* one call of function v ("tex": write_table.py, "plain": functions.py)
\* with the given colspec and with inner_settings left out ("default") or
\* bound to the caller's list ("caller")
CallWriteTable(v, colspec, inner) ==
    LET inner_settings ==
            inner_settings_appended(
                IF inner = "default" THEN default_settings[v]
                ELSE caller_settings, colspec)
        df == IF v = "tex" THEN write_table_tex(cells, ncols, uarray)
              ELSE write_table_plain(cells, ncols, uarray)
        text == IF v = "tex"
                THEN file_text(Join(sisetup), Join(inner_settings), df)
                ELSE complete_str_of(Join(sisetup), Join(inner_settings), df)
        a == [variant |-> v, colspec |-> colspec, inner |-> inner]
    IN  /\ wcalls < MaxWriteCalls
        /\ wcalls' = wcalls + 1
        /\ default_settings' =
               IF inner = "default"
               THEN [default_settings EXCEPT ![v] = inner_settings]
               ELSE default_settings
        /\ caller_settings' =
               IF inner = "caller" THEN inner_settings ELSE caller_settings
        /\ df_str' = df
        /\ complete_str' = text
        /\ fpc' = "done"
        /\ produced' = [produced EXCEPT ![a] = @ \cup {text}]
        /\ wargs' = [variant |-> v, colspec |-> colspec, inner |-> inner,
                     caller_before |-> caller_settings,
                     default_before |-> default_settings[v]]
        /\ UNCHANGED <<cells, ncols, uarray, sisetup>>
        /\ UNCHANGED <<resolverVars, patchVars, cdVars>>

\* write_table of write_table.py
CallWriteTableTex(colspec, inner) ==
    /\ variant' = "tex"
    /\ CallWriteTable("tex", colspec, inner)

\* write_table of functions.py
CallWriteTablePlain(colspec, inner) ==
    /\ variant' = "plain"
    /\ CallWriteTable("plain", colspec, inner)

\* the tables, sisetup lists and caller's lists of the runs
WriteTables ==
    { <<<<"4", "2">>>>,
      << <<"1", "+", "/", "-", "2">>,
         <<"(", "1", "+", "/", "-", "2", ")", "e", "-", "5">> >> }

Sisetups == { <<>>, << <<"p", "e", "r", "-", "m", "o", "d", "e">> >> }

CallerLists == { <<>>, << <<"h", "l", "i", "n", "e", "s">> >> }

WriteInit ==
    /\ cells \in WriteTables
    /\ ncols = Len(cells)
    /\ uarray \in BOOLEAN
    /\ sisetup \in Sisetups
    /\ caller_settings \in CallerLists
    /\ default_settings = [v \in {"tex", "plain"} |-> <<>>]
    /\ wargs = NoArgs
    /\ complete_str = <<>>
    /\ produced = [a \in Args |-> {}]
    /\ wcalls = 0
    /\ variant = "none" /\ fpc = "call" /\ df_str = <<>>
    /\ dec = [sgn |-> 0, m |-> 1, k |-> 0]
    /\ std_dev = DZero
    /\ rpc = "idle"
    /\ res = NoResult
    /\ PatchIdle
    /\ CdIdle

WriteNext ==
    \/ \E colspec \in Colspecs, inner \in {"default", "caller"} :
           CallWriteTableTex(colspec, inner)
    \/ \E colspec \in Colspecs, inner \in {"default", "caller"} :
           CallWriteTablePlain(colspec, inner)

SpecWrite == WriteInit /\ [][WriteNext]_vars

(***************************************************************************)
(* Properties of the resolver.  They are stated on the decimal literal dec *)
(* = m * 10^k the argument was written as: NumDigits(m) is its number of   *)
(* digits, LeadExp the power of ten of its first digit, and normalized =   *)
(* m / 10^(NumDigits(m) - 1).                                              *)
(***************************************************************************)
NumDigits(m) == IF m < 10 THEN 1 ELSE IF m < 100 THEN 2 ELSE 3

LeadExp(d) == d.k + NumDigits(d.m) - 1

\* normalized <= 1.9
LeadsWithOne(d) == d.m * 10 <= 19 * Pow10Int(NumDigits(d.m) - 1)

CeilDiv(a, b) == (a + b - 1) \div b

\* ceil(normalized * 10) when two digits are reported, ceil(normalized) when one
ExpectedCeil(d) ==
    IF LeadsWithOne(d)
    THEN CeilDiv(d.m * 100, Pow10Int(NumDigits(d.m)))
    ELSE CeilDiv(d.m * 10, Pow10Int(NumDigits(d.m)))

\* the power of ten of the reporting unit
ExpectedUnit(d) == IF LeadsWithOne(d) THEN LeadExp(d) - 1 ELSE LeadExp(d)

Returned == rpc = "returned"

\* C1: for every std_dev > 0 the rounded standard deviation the resolver
\* returns is greater than or equal to std_dev.
C1_NeverUnderstates ==
    (Returned /\ dec.sgn = 1) => DCmp(res.value, std_dev) >= 0

\* C2: for every std_dev > 0 the digit count is 1 or 2, and it is 2 exactly
\* when normalized <= 1.9 (1.9 itself included) and 1 when normalized > 1.9.
C2_DigitCount ==
    (Returned /\ dec.sgn = 1) =>
        /\ res.digits \in {1, 2}
        /\ (res.digits = 2) <=> LeadsWithOne(dec)

\* C3: for every std_dev > 0 the rounded value is the smallest multiple of
\* the reporting unit that is >= std_dev: ceil(normalized*10) * 10^(exponent-1)
\* with two digits, ceil(normalized) * 10^exponent with one.  The value is
\* compared up to float rounding: it must lie strictly between the
\* neighbouring multiples of the unit.
C3_SmallestMultiple ==
    (Returned /\ dec.sgn = 1) =>
        LET c == ExpectedCeil(dec)
            u == ExpectedUnit(dec)
        IN  /\ DCmp(res.value, FromDecimal(1, c - 1, u)) > 0
            /\ DCmp(res.value, FromDecimal(1, c + 1, u)) < 0

Formatted == fpc = "done" /\ uarray

\* the text the uarray branch was given
Input == to_csv(cells, ncols)

Sym == IF variant = "tex" THEN TexSym ELSE PlainSym

\* " SYMBOL ", the symbol with one space on each side
Mid == <<" ">> \o Sym \o <<" ">>

Contains(s, lit) == \E i \in 1..Len(s) : HasAt(s, i, lit)

\* digit, "+/-", digit stands in s at position i
OccursPm(s, i) ==
    /\ At(s, i) \in Digits
    /\ At(s, i + 1) = "+" /\ At(s, i + 2) = "/" /\ At(s, i + 3) = "-"
    /\ At(s, i + 4) \in Digits

Unquoted(s) == SelectSeq(s, NotQuote)

IsSignChar(c) == c \in {"+", "-", "/"}

IsPlusMinus(c) == c \in {"+", "-"}

\* characters no rewrite of the LaTeX variant writes or removes
IsKeptTex(c) == c \notin {QUOTE, " ", "(", ")", "+", "/", "-", "\\", "p", "m"}

\* characters no rewrite of the plain variant writes or removes
IsKeptPlain(c) == c \notin {QUOTE, " ", "(", ")", "/"}

\* the signs of a text
SignsOf(s) == SelectSeq(s, IsSignChar)

\* the cells of the shape <sign><number>+/-<number>, quoted or not, give
\* <sign><number> SYMBOL <number>
PlainCellsRewritten ==
    \A q \in BOOLEAN, sg \in Signs, n \in Noms, sd \in Sds :
        cells = <<Quoted(q, PlainCell(sg, n, sd))>> =>
            df_str = sg \o n \o Mid \o sd \o EOL

\* C5 as stated: the formatter removes all double quotes and then replaces
\* each occurrence of digit, "+/-", digit by the two digits separated by
\* " SYMBOL ": none is left.
C5_ReplacesEachOccurrence ==
    Formatted =>
        /\ ~Contains(df_str, <<QUOTE>>)
        /\ \A i \in 1..Len(df_str) : ~OccursPm(df_str, i)
        /\ PlainCellsRewritten

\* C5 as amended: the formatter removes all double quotes and then replaces
\* each occurrence of digit, "+/-", digit found by the left-to-right search
\* for non-overlapping matches; an occurrence that is left starts at the
\* last digit of a rewritten one.
C5_ReplacesEachMatch ==
    Formatted =>
        /\ ~Contains(df_str, <<QUOTE>>)
        /\ \A i \in 1..Len(df_str) :
               OccursPm(df_str, i) =>
                   /\ HasAt(df_str, i - Len(Mid), Mid)
                   /\ At(df_str, i - Len(Mid) - 1) \in Digits
        /\ PlainCellsRewritten

C5_Witness ==
    /\ Formatted
    /\ variant = "tex"
    /\ cells = << <<"\"", "3", ".", "1", "4", "+", "/", "-", "0", ".", "0", "7", "\"">> >>
    /\ df_str = <<"3", ".", "1", "4", " ", "\\", "p", "m", " ", "0", ".", "0", "7">> \o EOL

\* C6: a cell (<sign><number>+/-<number>)e<exponent>, quoted or not, gives
\* <sign><number> SYMBOL <number> e<exponent>: no parentheses, one space
\* before the e, the exponent as it was.
C6_ExponentCells ==
    Formatted =>
        \A q \in BOOLEAN, sg \in Signs, n \in Noms, sd \in Sds, e \in Exps :
            cells = <<Quoted(q, ExpCell(sg, n, sd, e))>> =>
                df_str = sg \o n \o Mid \o sd \o <<" ", "e">> \o e \o EOL

\* C7 as stated: a text without a "+/-" substring is returned unchanged
\* (but for its double quotes, which the formatter always removes).
C7_PassThrough ==
    (Formatted /\ ~Contains(Input, PM)) => df_str = Unquoted(Input)

\* C7 as amended: a text in which, its double quotes removed, no "+/-"
\* stands between two digits and no ")e" occurs is returned unchanged but
\* for the removed double quotes.
C7_PassThroughUnmatched ==
    ( /\ Formatted
      /\ \A i \in 1..Len(Input) : ~OccursPm(Unquoted(Input), i)
      /\ ~Contains(Unquoted(Input), <<")", "e">>) )
    => df_str = Unquoted(Input)

C7_Witness ==
    /\ Formatted
    /\ cells = << <<"a", "+", "/", "-", "b">> >>
    /\ df_str = <<"a", "+", "/", "-", "b">> \o EOL

\* C8: when the formatted text has no "+/-" left, formatting it once more
\* returns it unchanged, in both variants.
C8_Idempotent ==
    (Formatted /\ ~Contains(df_str, PM)) => Format(df_str, Sym) = df_str

C8_Witness ==
    /\ Formatted
    /\ df_str # Input
    /\ Contains(Input, <<QUOTE>>)
    /\ Contains(df_str, Mid \o <<"2", " ", "e">>)
    /\ ~Contains(df_str, PM)

C10_CellsIndependent ==
    Formatted =>
        df_str = to_csv([i \in 1..Len(cells) |-> Format(cells[i], Sym)], ncols)

C10_Witness ==
    /\ Formatted
    /\ Len(cells) = 4 /\ ncols = 2
    /\ cells[1] = <<"1", "+", "/", "-">>
    /\ cells[2] = <<"+", "/", "-", "2">>
    /\ cells[4] = <<"(", "1", "+", "/", "-", "2", ")", "e", "-", "5">>
    /\ df_str # Input

(***************************************************************************)
(* Properties of the monkey patch.                                         *)
(***************************************************************************)
Patched == PDG_precision.kind = "custom"

\* C11: before the first call of uncertainties_rounding the slot holds the
\* library's original policy; after it the slot holds the custom resolver in
\* every state, no step of the program takes it out again, and whichever
\* call installed it, a call through the slot gives what _PDG_precision
\* gives.
C11_SlotHoldsResolver ==
    /\ [](patch_calls = 0 => PDG_precision = OriginalPolicy)
    /\ [](patch_calls > 0 => Patched)
    /\ [][Patched => Patched']_vars
    /\ []((Patched /\ rpc \in {"returned", "raised"}) =>
             LET r == _PDG_precision(FromDecimal(dec.sgn, dec.m, dec.k))
             IN  /\ (rpc = "raised") = r.err
                 /\ res = r.ret)

\* the slot was installed without a message by the third call, and the call
\* through it returned the resolver's one digit for 0.2
C11_Witness ==
    /\ patch_calls = MaxPatchCalls
    /\ PDG_precision.closure = MaxPatchCalls
    /\ stdout = <<>>
    /\ rpc = "returned"
    /\ dec = [sgn |-> 1, m |-> 2, k |-> -1]
    /\ res.digits = 1

(***************************************************************************)
(* Properties of the directory context manager.                            *)
(***************************************************************************)
\* the directory 'with CDContxt(p):' is meant to run its body in
Target(p) == IF p = "" THEN ScriptDir ELSE p

\* C12: right after __enter__ the working directory is the instance's path,
\* or the script's directory when the path is empty; right after __exit__ it
\* is the directory the with-block was entered from, however the body ended
\* and whichever blocks, of this instance or another, enclose it.
C12_TemporaryChange ==
    /\ cdpc = "enter" => cwd = Target(path[Top.ctx])
    /\ cdpc = "exit" => cwd = left.from

(***************************************************************************)
(* Properties of write_table as a whole.                                   *)
(***************************************************************************)
\* the number of places of text s where the word w stands
Occurrences(s, w) ==
    Cardinality({i \in 1..Len(s) :
        /\ i + Len(w) - 1 <= Len(s)
        /\ SubSeq(s, i, i + Len(w) - 1) = w})

ColspecWord == <<"c", "o", "l", "s", "p", "e", "c", "=", "{">>

Written == wcalls > 0

\* C13: equal arguments give equal table texts whatever calls came before;
\* a call with a colspec writes exactly one "colspec={...}" entry; and a call
\* leaves the caller's list and the default list as they were before it.
C13_Deterministic ==
    /\ \A a \in Args : Cardinality(produced[a]) <= 1
    /\ (Written /\ wargs.colspec # <<>>) =>
           Occurrences(complete_str, ColspecWord) = 1
    /\ Written =>
           /\ caller_settings = wargs.caller_before
           /\ default_settings[wargs.variant] = wargs.default_before

=============================================================================
